---- MODULE Spec2Model ----
EXTENDS Integers, Sequences, FiniteSets, TLC

\* Model of the container construction engine: create() assembles a tagged
\* mount plan (one step per concern), MountAll replays it through the current
\* mounter (localMount or rpcMount), then Chroot and Chdir finish the run.

\* ------------------------------------------------------------------ tags
\* The tag order of the mount package (mount.AuthorizedTag).
SessionTag == 0
RootfsTag == 1
PreLayerTag == 2
LayerTag == 3
DevTag == 4
HostfsTag == 5
BindsTag == 6
KernelTag == 7
HomeTag == 8
TmpTag == 9
ScratchTag == 10
CwdTag == 11
UserbindsTag == 12
FilesTag == 13
OtherTag == 14
FinalTag == 15

\* A tag list in which UserbindsTag is walked before HomeTag.
TagListUserbindsFirst ==
    << SessionTag, RootfsTag, PreLayerTag, LayerTag, DevTag, HostfsTag,
       BindsTag, KernelTag, UserbindsTag, TmpTag, ScratchTag, CwdTag,
       HomeTag, FilesTag, OtherTag, FinalTag >>

\* GetTagList(): the tags in the order MountAll walks them.
TagList ==
    << SessionTag, RootfsTag, PreLayerTag, LayerTag, DevTag, HostfsTag,
       BindsTag, KernelTag, HomeTag, TmpTag, ScratchTag, CwdTag,
       UserbindsTag, FilesTag, OtherTag, FinalTag >>

\* ------------------------------------------------------------------ bounds
\* Longest list of user bind requests (GetBindPath()) that is enumerated.
MaxUserBinds == 1
\* Longest list of overlay images (GetOverlayImage()) that is enumerated.
MaxOverlayImages == 1

\* All sequences over S of length at most n.
SeqUpTo(S, n) == UNION { [1..k -> S] : k \in 0..n }

\* ------------------------------------------------------------------ paths
\* A path is either below the session directory (strings.HasPrefix(p,
\* session.Path()) holds) or any other absolute path.
InSession(p) == [sess |-> TRUE, p |-> p]
Abs(p) == [sess |-> FALSE, p |-> p]
NoPath == Abs("")

\* session.GetPath(rel): the staged location of rel below the session.
GetPath(rel) == InSession(rel)

\* session.RootFsPath(): where the rootfs image is mounted.
RootFsPath(l) == IF l = "None" THEN InSession("") ELSE InSession("/rootfs")

\* session.FinalPath(): what becomes "/" after chroot.
FinalPath(l) ==
    CASE l = "None" -> InSession("")
      [] l = "Overlay" -> InSession("/overlay/root")
      [] l = "Underlay" -> InSession("/underlay/root")

\* ------------------------------------------------------------------ plan
\* One planned mount. "by" records the concern that registered the point.
Point(tag, src, dst, type, flags, data, offset, by) ==
    [tag |-> tag, src |-> src, dst |-> dst, type |-> type, flags |-> flags,
     data |-> data, offset |-> offset, by |-> by]

\* Points.AddFS: a filesystem mount.
AddFS(pts, tag, dst, type, flags, data, by) ==
    Append(pts, Point(tag, Abs(type), dst, type, flags, data, FALSE, by))

\* Points.AddBind: MS_BIND is OR'd in.
AddBind(pts, tag, src, dst, flags, by) ==
    Append(pts, Point(tag, src, dst, "", flags \cup {"MS_BIND"}, "", FALSE, by))

\* Points.AddRemount: MS_REMOUNT|MS_BIND are OR'd in.
AddRemount(pts, tag, dst, flags, by) ==
    Append(pts, Point(tag, NoPath, dst, "",
                      flags \cup {"MS_REMOUNT", "MS_BIND"}, "", FALSE, by))

\* Points.AddImage: a loop-backed mount; offset and sizelimit go to the
\* internal options.
AddImage(pts, tag, src, dst, type, flags, by) ==
    Append(pts, Point(tag, src, dst, type, flags, "", TRUE, by))

\* Points.GetByTag: the indices (insertion order) of the points of a tag.
RECURSIVE IdxByTag(_, _, _)
IdxByTag(pts, tag, i) ==
    IF i > Len(pts) THEN << >>
    ELSE IF pts[i].tag = tag THEN << i >> \o IdxByTag(pts, tag, i + 1)
    ELSE IdxByTag(pts, tag, i + 1)

GetByTag(pts, tag) == IdxByTag(pts, tag, 1)

\* System.RunAfterTag: register a hook for a tag.
RunAfterTag(hks, tag, fn) == Append(hks, [tag |-> tag, fn |-> fn])

\* The hooks of a tag, as indices into the registration list.
RECURSIVE HookIdxByTag(_, _, _)
HookIdxByTag(hks, tag, i) ==
    IF i > Len(hks) THEN << >>
    ELSE IF hks[i].tag = tag THEN << i >> \o HookIdxByTag(hks, tag, i + 1)
    ELSE HookIdxByTag(hks, tag, i + 1)

HooksOf(hks, tag) == HookIdxByTag(hks, tag, 1)

\* mount.ConvertOptions + flags&MS_REMOUNT / flags&MS_BIND tests.
IsRemount(p) == "MS_REMOUNT" \in p.flags
IsBind(p) == "MS_BIND" \in p.flags

BindFlags == {"MS_BIND", "MS_NOSUID", "MS_NODEV", "MS_REC"}

\* ------------------------------------------------------------------ config
\* The fields of EngineConfig / OciConfig that the assembler reads, with the
\* values of a default installation.
BaseCfg ==
    [ imageType |-> "SQUASHFS", sifFs |-> "squashfs", overlayImages |-> << >>,
      mountProc |-> TRUE, mountSys |-> TRUE,
      mountDev |-> "minimal", mountDevPts |-> TRUE, nv |-> FALSE,
      mountHostfs |-> TRUE, hostChildren |-> << "/data", "/proc/fs" >>,
      bindPath |-> << [src |-> "/etc/hosts", dst |-> "/etc/hosts"] >>,
      contain |-> FALSE, noHome |-> FALSE, mountHome |-> TRUE,
      customHome |-> FALSE, userBindControl |-> TRUE,
      home |-> [src |-> "/home/u", dst |-> "/home/u"],
      userBinds |-> << >>, mountTmp |-> TRUE, workdir |-> "",
      scratch |-> << >>,
      cwd |-> [hasProcess |-> TRUE, chdirOk |-> TRUE, current |-> "/work",
               cwd |-> "/work"],
      configPasswd |-> TRUE, configGroup |-> TRUE,
      \* files.Passwd / files.Group cannot read the image's file
      passwdErr |-> FALSE, groupErr |-> FALSE,
      allowDir |-> TRUE, allowExtfs |-> TRUE, allowSquashfs |-> TRUE,
      \* is the 'limit container paths / groups / owners' list non-empty
      limitPaths |-> FALSE, limitGroups |-> FALSE, limitOwners |-> FALSE,
      \* what AuthorizedPath / AuthorizedGroup / AuthorizedOwner answer for
      \* the rootfs image and for the overlay images
      rootfsAuth |-> [path |-> TRUE, group |-> TRUE, owner |-> TRUE],
      overlayAuth |-> [path |-> TRUE, group |-> TRUE, owner |-> TRUE] ]

ImageTypes == {"SANDBOX", "SQUASHFS", "EXT3", "SIF"}

\* What the limit lists answer for one image: every list authorizes it, or
\* one of them does not.
ImageAuths ==
    { [path |-> TRUE, group |-> TRUE, owner |-> TRUE],
      [path |-> FALSE, group |-> TRUE, owner |-> TRUE],
      [path |-> TRUE, group |-> FALSE, owner |-> TRUE],
      [path |-> TRUE, group |-> TRUE, owner |-> FALSE] }

\* Entries of --overlay: <path>[:ro], with the kind image.Init finds.
OverlayEntries ==
    { [type |-> "EXT3", ro |-> FALSE], [type |-> "SQUASHFS", ro |-> TRUE],
      [type |-> "SANDBOX", ro |-> FALSE] }

\* Entries of --bind: <src>[:<dst>[:<opt>]].
UserBindEntries ==
    { [src |-> "/data", dst |-> "/home/u/data", opt |-> ""],
      [src |-> "/opt/x", dst |-> "/mnt/x", opt |-> "ro"] }

\* One invocation: the configuration, the namespaces of the OCI
\* configuration, the real uid of the caller and the effective uid at entry.
Setup(cf, uns, pns, uid, euid) ==
    [cfg |-> cf, userNS |-> uns, pidNS |-> pns, uid |-> uid, euid |-> euid]

\* The invocations enumerated: each family varies some fields of the default
\* installation. 1000 is the uid of an unprivileged caller.
Setups ==
    { Setup([BaseCfg EXCEPT !.imageType = t], uns, FALSE, uid, uid) :
        t \in ImageTypes, uns \in BOOLEAN, uid \in {0, 1000} }
    \cup { Setup([BaseCfg EXCEPT !.imageType = t], FALSE, FALSE, 1000, 0) :
             t \in {"SANDBOX", "SQUASHFS"} }
    \cup { Setup([BaseCfg EXCEPT !.overlayImages = o, !.imageType = "SIF",
                                 !.sifFs = "ext3"], FALSE, FALSE, uid, uid) :
             o \in SeqUpTo(OverlayEntries, MaxOverlayImages), uid \in {0, 1000} }
    \cup { Setup([BaseCfg EXCEPT !.userBinds = b], FALSE, FALSE, 1000, 1000) :
             b \in SeqUpTo(UserBindEntries, MaxUserBinds) }
    \cup { Setup([BaseCfg EXCEPT !.noHome = nh, !.customHome = ch,
                                 !.userBindControl = ubc],
                 FALSE, FALSE, 1000, 1000) :
             nh \in BOOLEAN, ch \in BOOLEAN, ubc \in BOOLEAN }
    \cup { Setup([BaseCfg EXCEPT !.contain = TRUE, !.workdir = w,
                                 !.scratch = << "/scratch1" >>],
                 FALSE, TRUE, 1000, 1000) : w \in {"", "/w"} }
    \cup { Setup([BaseCfg EXCEPT !.mountDev = d, !.mountDevPts = FALSE,
                                 !.mountProc = FALSE, !.mountSys = FALSE,
                                 !.mountHostfs = FALSE, !.mountTmp = FALSE,
                                 !.configPasswd = FALSE, !.configGroup = g,
                                 !.groupErr = ge],
                 TRUE, TRUE, 1000, 1000) :
             d \in {"yes", "no"}, g \in BOOLEAN, ge \in BOOLEAN }

\* The result of one concern: did it return an error, and the plan after it.
Res(e, pts) == [err |-> e, pts |-> pts]

\* ------------------------------------------------------------------ layout
\* A selection that tries overlay inside a user namespace too.
setupSessionLayoutAnyNS(writableImage, uns, hasOverlay, enableOverlay, enableUnderlay) ==
    IF writableImage THEN "None"
    ELSE IF hasOverlay /\ enableOverlay \in {"yes", "try"} THEN "Overlay"
    ELSE IF enableUnderlay THEN "Underlay"
    ELSE "None"

\* setupSessionLayout: which layout is set up, by first match.
setupSessionLayout(writableImage, uns, hasOverlay, enableOverlay, enableUnderlay) ==
    IF writableImage THEN "None"
    ELSE IF hasOverlay /\ ~uns /\ enableOverlay \in {"yes", "try"} THEN "Overlay"
    ELSE IF enableUnderlay THEN "Underlay"
    ELSE "None"

\* layout.NewSession: the session tmpfs at SessionTag; a layer registers its
\* realization for LayerTag.
NewSessionPoints(pts) ==
    AddFS(pts, SessionTag, InSession(""), "tmpfs", {}, "size", "NewSession")

NewSessionHooks(hks, l) ==
    IF l = "None" THEN hks ELSE RunAfterTag(hks, LayerTag, "layerRealize")

\* A setupDefaultLayout that registers switchMount for SessionTag.
SwitchTagEarly(l) == IF l = "None" THEN SessionTag ELSE LayerTag

\* A layout setup that registers switchMount for SessionTag in every layout.
SwitchTagSession(l) == SessionTag

\* The tag switchMount is registered for by setupDefaultLayout,
\* setupOverlayLayout and setupUnderlayLayout.
SwitchTag(l) == IF l = "None" THEN RootfsTag ELSE LayerTag

\* ------------------------------------------------------------------ images
\* loadImage, lines 348-369: each non-empty limit list must authorize the
\* image.
Authorized(cf, au) ==
    /\ cf.limitPaths => au.path
    /\ cf.limitGroups => au.group
    /\ cf.limitOwners => au.owner

\* loadImage, lines 370-383: the switch on imgObject.Type has the cases
\* SANDBOX, EXT3 and SQUASHFS only.
AllowedKind(cf, type) ==
    CASE type = "SANDBOX" -> cf.allowDir
      [] type = "EXT3" -> cf.allowExtfs
      [] type = "SQUASHFS" -> cf.allowSquashfs
      [] OTHER -> TRUE

\* loadImage returns the image object (TRUE) or an error (FALSE).
loadImage(cf, type, au) == Authorized(cf, au) /\ AllowedKind(cf, type)

\* ------------------------------------------------------------------ overlay
\* addOverlayMount: one pass of the loop over GetOverlayImage(); st carries
\* the plan, the hooks, the overlay's lower dirs and the error.
RECURSIVE addOverlayFrom(_, _, _, _, _)
addOverlayFrom(cf, imgs, nb, euid, st) ==
    IF nb > Len(imgs) \/ st.err THEN st
    ELSE IF ~loadImage(cf, imgs[nb].type, cf.overlayAuth)
    THEN [st EXCEPT !.err = TRUE]
    ELSE
      LET img == imgs[nb]
          writable == ~img.ro
          dst == GetPath("/overlay-images/" \o ToString(nb - 1))
          src == Abs("/proc/self/fd/ov")
          nosd == {"MS_NOSUID", "MS_NODEV"}
          upd ==
            CASE img.type = "EXT3" ->
                   [st EXCEPT
                      !.pts = AddImage(@, PreLayerTag, src, dst, "ext3", nosd,
                                       "addOverlayMount"),
                      !.hooks = IF writable
                                THEN RunAfterTag(@, PreLayerTag, "overlayUpperWork")
                                ELSE @,
                      !.lower = IF writable THEN @ ELSE Append(@, dst)]
              [] img.type = "SQUASHFS" ->
                   [st EXCEPT
                      !.pts = AddImage(@, PreLayerTag, src, dst, "squashfs",
                                       nosd \cup {"MS_RDONLY"}, "addOverlayMount"),
                      !.lower = Append(@, dst)]
              [] img.type = "SANDBOX" ->
                   IF euid # 0 THEN [st EXCEPT !.err = TRUE]
                   ELSE
                     [st EXCEPT
                        !.pts = AddRemount(
                                  AddBind(@, PreLayerTag, src, dst, nosd,
                                          "addOverlayMount"),
                                  PreLayerTag, dst, nosd, "addOverlayMount"),
                        !.hooks = IF writable
                                  THEN RunAfterTag(@, PreLayerTag, "overlayUpperWork")
                                  ELSE @,
                        !.lower = IF writable THEN @ ELSE Append(@, dst)]
              [] OTHER -> [st EXCEPT !.err = TRUE]
      IN addOverlayFrom(cf, imgs, nb + 1, euid, upd)

addOverlayMount(cf, imgs, euid, pts, hks) ==
    addOverlayFrom(cf, imgs, 1, euid,
                   [pts |-> pts, hooks |-> hks, lower |-> << >>, err |-> FALSE])

\* ------------------------------------------------------------------ rootfs
\* Flags of an image rootfs without MS_RDONLY.
RootfsImageFlagsWritable == {"MS_NOSUID", "MS_NODEV"}

\* addRootfsMount, lines 387 and 449: MS_NOSUID|MS_NODEV, then |= MS_RDONLY.
RootfsImageFlags == {"MS_NOSUID", "MS_NODEV", "MS_RDONLY"}

\* addRootfsMount, after loadImage and the SIF partition lookup succeeded.
addRootfsMount(pts, cf, l) ==
    IF cf.imageType = "SANDBOX"
    THEN AddRemount(
           AddBind(pts, RootfsTag, Abs("/image"), RootFsPath(l),
                   {"MS_NOSUID", "MS_NODEV", "MS_BIND"}, "addRootfsMount"),
           PreLayerTag, RootFsPath(l), {"MS_NOSUID", "MS_NODEV", "MS_BIND"},
           "addRootfsMount")
    ELSE
      LET mountType ==
            CASE cf.imageType = "SIF" -> cf.sifFs
              [] cf.imageType = "SQUASHFS" -> "squashfs"
              [] cf.imageType = "EXT3" -> "ext3"
      IN AddImage(pts, RootfsTag, Abs("/proc/self/fd/img"), RootFsPath(l),
                  mountType, RootfsImageFlags, "addRootfsMount")

\* ------------------------------------------------------------------ kernel
\* A kernel concern that remounts its binds in a user namespace too.
KernelRemountAlways(uns) == TRUE

\* addKernelMount, lines 586 and 604: the remount after a bind is registered
\* only if !c.userNS.
KernelRemount(uns) == ~uns

\* addKernelMount: /proc and /sys.
addKernelMount(pts, cf, uns, pns) ==
    LET nosd == {"MS_NOSUID", "MS_NODEV"}
        p1 == IF ~cf.mountProc THEN pts
              ELSE IF pns
              THEN AddFS(pts, KernelTag, Abs("/proc"), "proc", nosd, "",
                         "addKernelMount")
              ELSE LET b == AddBind(pts, KernelTag, Abs("/proc"), Abs("/proc"),
                                    BindFlags, "addKernelMount")
                   IN IF KernelRemount(uns)
                      THEN AddRemount(b, KernelTag, Abs("/proc"), BindFlags,
                                      "addKernelMount")
                      ELSE b
        p2 == IF ~cf.mountSys THEN p1
              ELSE IF ~uns
              THEN AddFS(p1, KernelTag, Abs("/sys"), "sysfs", nosd, "",
                         "addKernelMount")
              ELSE LET b == AddBind(p1, KernelTag, Abs("/sys"), Abs("/sys"),
                                    BindFlags, "addKernelMount")
                   IN IF KernelRemount(uns)
                      THEN AddRemount(b, KernelTag, Abs("/sys"), BindFlags,
                                      "addKernelMount")
                      ELSE b
    IN p2

\* ------------------------------------------------------------------ dev
\* bindDev: stage an empty file in the session and bind the host device on it.
bindDev(pts, devpath) ==
    AddBind(pts, DevTag, Abs(devpath), GetPath(devpath), {"MS_BIND"}, "addDevMount")

\* addDevMount. ptmxMissing: os.Stat("/dev/pts/ptmx") reports IsNotExist;
\* devptsErr: Points.AddFS refused the devpts point.
addDevMount(pts, cf, uns, ptmxMissing, devptsErr) ==
    IF cf.mountDev = "minimal" \/ cf.contain
    THEN
      LET shm == AddFS(pts, DevTag, GetPath("/dev/shm"), "tmpfs",
                       {"MS_NOSUID", "MS_NODEV"}, "mode=1777", "addDevMount")
          options == IF ~uns THEN "mode=0620,newinstance,ptmxmode=0666,gid=tty"
                     ELSE "mode=0620,newinstance,ptmxmode=0666"
          pty == IF ~cf.mountDevPts \/ devptsErr THEN shm
                 ELSE bindDev(AddFS(shm, DevTag, GetPath("/dev/pts"), "devpts",
                                    {"MS_NOSUID", "MS_NOEXEC"}, options,
                                    "addDevMount"),
                              "/dev/tty")
          devs == bindDev(bindDev(bindDev(bindDev(pty, "/dev/null"), "/dev/zero"),
                                  "/dev/random"), "/dev/urandom")
          nvd == IF cf.nv THEN bindDev(devs, "/dev/nvidia0") ELSE devs
      IN IF cf.mountDevPts /\ ptmxMissing THEN Res(TRUE, shm)
         ELSE Res(FALSE, AddBind(nvd, DevTag, GetPath("/dev"), Abs("/dev"),
                                 {"MS_BIND", "MS_NOSUID", "MS_REC"}, "addDevMount"))
    ELSE IF cf.mountDev = "yes"
    THEN Res(FALSE, AddBind(pts, DevTag, Abs("/dev"), Abs("/dev"),
                            {"MS_BIND", "MS_NOSUID", "MS_REC"}, "addDevMount"))
    ELSE Res(FALSE, pts)

\* ------------------------------------------------------------------ hostfs
\* strings.HasPrefix(child, prefix) for the host mount points enumerated.
SkippedHostChild(child) == child \in {"/proc/fs", "/sys/kernel", "/dev/shm",
                                      "/run/user", "/boot/efi", "/var/lib"}

RECURSIVE addHostFrom(_, _, _)
addHostFrom(pts, children, i) ==
    IF i > Len(children) THEN pts
    ELSE IF SkippedHostChild(children[i]) THEN addHostFrom(pts, children, i + 1)
    ELSE addHostFrom(
           AddRemount(AddBind(pts, HostfsTag, Abs(children[i]), Abs(children[i]),
                              BindFlags, "addHostMount"),
                      HostfsTag, Abs(children[i]), BindFlags, "addHostMount"),
           children, i + 1)

\* addHostMount, after proc.ParseMountInfo succeeded.
addHostMount(pts, cf) ==
    IF ~cf.mountHostfs THEN pts ELSE addHostFrom(pts, cf.hostChildren, 1)

\* ------------------------------------------------------------------ binds
RECURSIVE addBindsFrom(_, _, _)
addBindsFrom(pts, binds, i) ==
    IF i > Len(binds) THEN pts
    ELSE addBindsFrom(AddBind(pts, BindsTag, Abs(binds[i].src), Abs(binds[i].dst),
                              BindFlags, "addBindsMount"),
                      binds, i + 1)

\* A bind concern that registers the entries under contain too.
addBindsMountContained(pts, cf) == addBindsFrom(pts, cf.bindPath, 1)

\* addBindsMount: the administrator's bind path entries.
addBindsMount(pts, cf) ==
    IF cf.contain THEN pts ELSE addBindsFrom(pts, cf.bindPath, 1)

\* ------------------------------------------------------------------ home
\* fs.RootDir: the first component of a path, "." for a relative one.
RootDir(p) ==
    CASE p = "/home/u" -> "/home"
      [] p = "/etc/u" -> "/etc"
      [] OTHER -> "."

\* A home concern that accepts any requested home.
HomeRefusedNever(cf) == FALSE

\* addHomeMount, lines 823-836: customHome (pw.Dir differs from the requested
\* home) without user bind control.
HomeRefused(cf) == cf.customHome /\ ~cf.userBindControl

\* addHomeMount, after user.GetPwUID and the session staging succeeded.
addHomeMount(pts, cf, l) ==
    IF cf.noHome \/ ~cf.mountHome THEN Res(FALSE, pts)
    ELSE IF HomeRefused(cf) THEN Res(TRUE, pts)
    ELSE
      LET src == cf.home.src
          dst == cf.home.dst
      IN IF l = "None"
         THEN LET staged ==
                    AddRemount(AddBind(pts, HomeTag, Abs(src), GetPath(dst),
                                       BindFlags, "addHomeMount"),
                               HomeTag, GetPath(dst), BindFlags, "addHomeMount")
                  dstDir == RootDir(dst)
              IN IF dstDir = "." THEN Res(TRUE, staged)
                 ELSE Res(FALSE, AddBind(staged, FinalTag, GetPath(dstDir),
                                         Abs(dstDir), BindFlags, "addHomeMount"))
         ELSE Res(FALSE,
                  AddRemount(AddBind(pts, HomeTag, Abs(src), Abs(dst), BindFlags,
                                     "addHomeMount"),
                             HomeTag, Abs(dst), BindFlags, "addHomeMount"))

\* ------------------------------------------------------------------ user binds
\* The loop of addUserbindsMount; flags is declared before the loop and is
\* carried from one entry to the next.
RECURSIVE addUserbindsFrom(_, _, _, _)
addUserbindsFrom(pts, binds, i, flags) ==
    IF i > Len(binds) THEN pts
    ELSE
      LET b == binds[i]
          f == IF b.opt = "ro" THEN flags \cup {"MS_RDONLY"} ELSE flags
      IN addUserbindsFrom(
           AddRemount(AddBind(pts, UserbindsTag, Abs(b.src), Abs(b.dst), f,
                              "addUserbindsMount"),
                      UserbindsTag, Abs(b.dst), f, "addUserbindsMount"),
           binds, i + 1, f)

\* A user bind concern that does not consult user bind control.
addUserbindsMountUnchecked(pts, cf) ==
    IF Len(cf.userBinds) = 0 THEN pts
    ELSE addUserbindsFrom(pts, cf.userBinds, 1, BindFlags)

addUserbindsMount(pts, cf) ==
    IF Len(cf.userBinds) = 0 THEN pts
    ELSE IF ~cf.userBindControl THEN pts
    ELSE addUserbindsFrom(pts, cf.userBinds, 1, BindFlags)

\* ------------------------------------------------------------------ tmp
\* addTmpMount, after fs.MkdirAll / session.AddDir succeeded.
\* A /var/tmp source that keeps the nested name below the workdir.
vartmpSourceNested(cf) ==
    IF ~cf.contain THEN Abs("/var/tmp")
    ELSE IF cf.workdir # "" THEN Abs(cf.workdir \o "/var/tmp")
    ELSE GetPath("/var/tmp")

\* addTmpMount, lines 936-970: the source bound on /var/tmp.
vartmpSource(cf) ==
    IF ~cf.contain THEN Abs("/var/tmp")
    ELSE IF cf.workdir # "" THEN Abs(cf.workdir \o "/var_tmp")
    ELSE GetPath("/var/tmp")

addTmpMount(pts, cf) ==
    IF ~cf.mountTmp THEN pts
    ELSE IF cf.contain /\ cf.workdir # "" /\ ~cf.userBindControl THEN pts
    ELSE
      LET tmpSource ==
            IF ~cf.contain THEN Abs("/tmp")
            ELSE IF cf.workdir # "" THEN Abs(cf.workdir \o "/tmp")
            ELSE GetPath("/tmp")
          t1 == AddRemount(AddBind(pts, TmpTag, tmpSource, Abs("/tmp"), BindFlags,
                                   "addTmpMount"),
                           TmpTag, Abs("/tmp"), BindFlags, "addTmpMount")
      IN AddRemount(AddBind(t1, TmpTag, vartmpSource(cf), Abs("/var/tmp"), BindFlags,
                            "addTmpMount"),
                    TmpTag, Abs("/var/tmp"), BindFlags, "addTmpMount")

\* ------------------------------------------------------------------ scratch
RECURSIVE addScratchFrom(_, _, _, _)
addScratchFrom(pts, dirs, i, workdir) ==
    IF i > Len(dirs) THEN pts
    ELSE
      LET dir == dirs[i]
          fullSourceDir == IF workdir # "" THEN Abs(workdir \o "/scratch" \o dir)
                           ELSE GetPath("/scratch" \o dir)
      IN addScratchFrom(
           AddRemount(AddBind(pts, ScratchTag, fullSourceDir, Abs(dir), BindFlags,
                              "addScratchMount"),
                      ScratchTag, Abs(dir), BindFlags, "addScratchMount"),
           dirs, i + 1, workdir)

\* addScratchMount, after the scratch directories were created.
addScratchMount(pts, cf) ==
    IF Len(cf.scratch) = 0 THEN pts
    ELSE IF ~cf.userBindControl THEN pts
    ELSE addScratchFrom(pts, cf.scratch, 1, cf.workdir)

\* ------------------------------------------------------------------ cwd
\* The directories addCwdMount refuses to bind.
RefusedCwd(current) ==
    \/ current \in {"/", "/etc", "/bin", "/mnt", "/usr", "/var", "/opt", "/sbin"}
    \/ current \in {"/sys/fs", "/proc/self", "/dev/shm"}

\* addCwdMount, after os.Getwd succeeded.
addCwdMount(pts, cf) ==
    IF cf.contain \/ ~cf.userBindControl \/ ~cf.cwd.hasProcess
       \/ ~cf.cwd.chdirOk \/ RefusedCwd(cf.cwd.current)
    THEN pts
    ELSE AddRemount(AddBind(pts, CwdTag, Abs(cf.cwd.current), Abs(cf.cwd.cwd),
                            BindFlags, "addCwdMount"),
                    CwdTag, Abs(cf.cwd.cwd), BindFlags, "addCwdMount")

\* ------------------------------------------------------------------ files
\* An addFilesMount that registers its binds at LayerTag, the tag it is a
\* hook of.
addFilesMountAtLayer(pts, cf, euid) ==
    IF euid = 0 THEN pts
    ELSE
      LET p1 == IF cf.configPasswd /\ ~cf.passwdErr
                THEN AddBind(pts, LayerTag, GetPath("/etc/passwd"),
                             Abs("/etc/passwd"), {"MS_BIND"}, "addFilesMount")
                ELSE pts
      IN IF cf.configGroup /\ ~cf.groupErr
         THEN AddBind(p1, LayerTag, GetPath("/etc/group"), Abs("/etc/group"),
                      {"MS_BIND"}, "addFilesMount")
         ELSE p1

\* addFilesMount, lines 1086-1092: the calls of c.session.Update() that the
\* deferred call makes when the hook returns (none when running as root).
sessionUpdate(euid) == IF euid = 0 THEN 0 ELSE 1

\* addFilesMount (hook of LayerTag). When files.Passwd / files.Group cannot
\* produce the content, a warning is logged and the bind is left out.
addFilesMount(pts, cf, euid) ==
    IF euid = 0 THEN pts
    ELSE
      LET p1 == IF cf.configPasswd /\ ~cf.passwdErr
                THEN AddBind(pts, FilesTag, GetPath("/etc/passwd"),
                             Abs("/etc/passwd"), {"MS_BIND"}, "addFilesMount")
                ELSE pts
      IN IF cf.configGroup /\ ~cf.groupErr
         THEN AddBind(p1, FilesTag, GetPath("/etc/group"), Abs("/etc/group"),
                      {"MS_BIND"}, "addFilesMount")
         ELSE p1

\* ------------------------------------------------------------------ state
VARIABLES
    cfg,        \* the engine configuration of this invocation
    userNS,     \* c.userNS
    pidNS,      \* c.pidNS
    cred,       \* the process credentials [ruid, euid, suid, fsuid]
    layer,      \* c.session.Layer: "None", "Overlay", "Underlay" ("" before setup)
    layoutIn,   \* what setupSessionLayout read (kept until create's next step)
    points,     \* system.Points, in insertion order
    hooks,      \* the after-tag hooks, in registration order
    ov,         \* the overlay layer's lower, upper and work dirs
    mounter,    \* system.Mount: "local" (c.localMount) or "rpc" (c.rpcMount)
    pc,         \* the position of create()
    err,        \* the step whose error create() returned ("" if none)
    pos,        \* the position of MountAll: tag index, points handed, hooks run
    trace,      \* history: the mounter calls, hooks, chroot and chdir so far
    last,       \* history: what the latest mounter call did
    landed      \* history: the watched tags at which a bind was performed

vars == << cfg, userNS, pidNS, cred, layer, layoutIn, points, hooks, ov, mounter,
           pc, err, pos, trace, last, landed >>

NoLayoutIn ==
    [read |-> FALSE, writableImage |-> FALSE, hasOverlay |-> FALSE,
     enableOverlay |-> "", enableUnderlay |-> FALSE]

NoLast ==
    [via |-> "", idx |-> 0, srcExists |-> TRUE, dstExists |-> TRUE,
     issued |-> FALSE, failed |-> FALSE, ret |-> FALSE, euidAt |-> 0,
     fsuidAt |-> 0, elevate |-> FALSE, setfsuid |-> FALSE,
     setfsuidOk |-> FALSE, restore |-> FALSE, restoreOk |-> FALSE]

\* The tags watched by the history variable landed.
Watched == {CwdTag, UserbindsTag, FilesTag}

\* create(), lines 46-65: the container object, the namespaces of the OCI
\* configuration, an empty plan and the direct mounter. A set-uid installation
\* starts with saved uid 0; with a user namespace the credentials are the
\* user's.
Start(s) ==
    /\ cfg = s.cfg
    /\ userNS = s.userNS
    /\ pidNS = s.pidNS
    /\ cred = [ruid |-> s.uid, euid |-> s.euid,
               suid |-> (IF s.userNS THEN s.uid ELSE 0), fsuid |-> s.euid]
    /\ layer = ""
    /\ layoutIn = NoLayoutIn
    /\ points = << >>
    /\ hooks = << >>
    /\ ov = [lower |-> << >>, upper |-> NoPath, work |-> NoPath]
    /\ mounter = "local"
    /\ pc = "setupSessionLayout"
    /\ err = ""
    /\ pos = [t |-> 1, i |-> 0, h |-> 0]
    /\ trace = << >>
    /\ last = NoLast
    /\ landed = {}

Init == \E s \in Setups : Start(s)

\* create() returns the error of step.
Fail(step) == pc' = "error" /\ err' = step

\* ------------------------------------------------------------------ create
\* What the configuration file may hold for 'enable overlay' and 'mount dev':
\* the documented values and one that is none of them.
EnableOverlayValues == {"yes", "try", "no", "auto"}
MountDevValues == {"minimal", "yes", "no", "auto"}

\* setupSessionLayout with setupDefaultLayout / setupOverlayLayout /
\* setupUnderlayLayout. sessionErr: layout.NewSession failed.
SetupSessionLayout ==
    /\ pc = "setupSessionLayout"
    /\ \E w \in BOOLEAN, k \in BOOLEAN, eo \in EnableOverlayValues,
          eu \in BOOLEAN, sessionErr \in BOOLEAN :
         LET l == setupSessionLayout(w, userNS, k, eo, eu)
             pts1 == NewSessionPoints(points)
             hks1 == NewSessionHooks(hooks, l)
             o == IF l = "Overlay"
                  THEN addOverlayMount(cfg, cfg.overlayImages, cred.euid, pts1,
                                       hks1)
                  ELSE [pts |-> pts1, hooks |-> hks1, lower |-> << >>,
                        err |-> FALSE]
         IN /\ layoutIn' = [read |-> TRUE, writableImage |-> w, hasOverlay |-> k,
                            enableOverlay |-> eo, enableUnderlay |-> eu]
            /\ layer' = l
            /\ IF sessionErr
               THEN Fail("setupSessionLayout") /\ UNCHANGED << points, hooks, ov >>
               ELSE IF o.err
               THEN /\ Fail("setupSessionLayout")
                    /\ points' = o.pts
                    /\ hooks' = o.hooks
                    /\ ov' = [ov EXCEPT !.lower = o.lower]
               ELSE /\ points' = o.pts
                    /\ hooks' = RunAfterTag(o.hooks, SwitchTag(l), "switchMount")
                    /\ ov' = [ov EXCEPT !.lower = o.lower]
                    /\ pc' = "RunAfterTag"
                    /\ UNCHANGED err
    /\ UNCHANGED << cfg, userNS, pidNS, cred, mounter, pos, trace, last, landed >>

\* create(), line 71: addFilesMount is registered as a hook of LayerTag.
RegisterFilesHook ==
    /\ pc = "RunAfterTag"
    /\ hooks' = RunAfterTag(hooks, LayerTag, "addFilesMount")
    /\ layoutIn' = NoLayoutIn
    /\ pc' = "addRootfsMount"
    /\ UNCHANGED << cfg, userNS, pidNS, cred, layer, points, ov, mounter, err, pos,
                    trace, last, landed >>

\* One concern of create(): it returns an error, or leaves the plan pts and
\* create() goes on with the next concern.
Concern(step, next, res) ==
    /\ pc = step
    /\ IF res.err
       THEN Fail(step) /\ UNCHANGED points
       ELSE points' = res.pts /\ pc' = next /\ UNCHANGED err
    /\ UNCHANGED << cfg, userNS, pidNS, cred, layer, layoutIn, hooks, ov, mounter,
                    pos, trace, last, landed >>

\* imageErr: os.Stat, image.Init or the SIF partition lookup failed.
AddRootfsMount ==
    \E imageErr \in BOOLEAN :
      Concern("addRootfsMount", "addKernelMount",
              Res(imageErr \/ ~loadImage(cfg, cfg.imageType, cfg.rootfsAuth),
                  addRootfsMount(points, cfg, layer)))

AddKernelMount ==
    Concern("addKernelMount", "addDevMount",
            Res(FALSE, addKernelMount(points, cfg, userNS, pidNS)))

AddDevMount ==
    \E ptmxMissing \in BOOLEAN, devptsErr \in BOOLEAN :
      Concern("addDevMount", "addHostMount",
              addDevMount(points, cfg, userNS, ptmxMissing, devptsErr))

\* mountinfoErr: proc.ParseMountInfo failed.
AddHostMount ==
    \E mountinfoErr \in BOOLEAN :
      Concern("addHostMount", "addBindsMount",
              Res(mountinfoErr /\ cfg.mountHostfs, addHostMount(points, cfg)))

AddBindsMount ==
    Concern("addBindsMount", "addHomeMount", Res(FALSE, addBindsMount(points, cfg)))

AddHomeMount ==
    Concern("addHomeMount", "addUserbindsMount", addHomeMount(points, cfg, layer))

AddUserbindsMount ==
    Concern("addUserbindsMount", "addTmpMount",
            Res(FALSE, addUserbindsMount(points, cfg)))

\* addTmpMount creates directories (fs.MkdirAll below the workdir or
\* session.AddDir) only under contain, and not when it gives up for want of
\* user bind control.
TmpMakesDirs(cf) ==
    cf.mountTmp /\ cf.contain /\ (cf.workdir = "" \/ cf.userBindControl)

\* dirErr: fs.MkdirAll or session.AddDir failed.
AddTmpMount ==
    \E dirErr \in BOOLEAN :
      Concern("addTmpMount", "addScratchMount",
              Res(dirErr /\ TmpMakesDirs(cfg), addTmpMount(points, cfg)))

\* addScratchMount creates a source directory per requested scratch dir.
ScratchMakesDirs(cf) == Len(cf.scratch) > 0 /\ cf.userBindControl

\* dirErr: fs.MkdirAll or session.AddDir failed.
AddScratchMount ==
    \E dirErr \in BOOLEAN :
      Concern("addScratchMount", "addCwdMount",
              Res(dirErr /\ ScratchMakesDirs(cfg), addScratchMount(points, cfg)))

AddCwdMount ==
    Concern("addCwdMount", "addLibsMount", Res(FALSE, addCwdMount(points, cfg)))

\* addLibsMount registers nothing; create() then calls system.MountAll().
AddLibsMount ==
    Concern("addLibsMount", "MountAll", Res(FALSE, points))

\* ------------------------------------------------------------------ MountAll
\* System.MountAll walks TagList; for each tag it hands every point of the tag
\* to system.Mount, then runs the hooks of the tag in registration order.
\* q = [t, i, h]: tag index, points of the tag handed, hooks of the tag run.
\* A MountAll that runs the hooks of a tag before it hands the tag's points.
PointDueAfterHooks(pts, hks, q) ==
    /\ q.h >= Len(HooksOf(hks, TagList[q.t]))
    /\ q.i < Len(GetByTag(pts, TagList[q.t]))

PointDue(pts, hks, q) == q.h = 0 /\ q.i < Len(GetByTag(pts, TagList[q.t]))

HookDue(pts, hks, q) == q.h < Len(HooksOf(hks, TagList[q.t]))

\* The next item MountAll handles from q on: a point, a hook, or the end.
RECURSIVE Norm(_, _, _)
Norm(pts, hks, q) ==
    IF q.t > Len(TagList) THEN q
    ELSE IF PointDue(pts, hks, q) \/ HookDue(pts, hks, q) THEN q
    ELSE Norm(pts, hks, [t |-> q.t + 1, i |-> 0, h |-> 0])

Cur == Norm(points, hooks, pos)

AtPoint == pc = "MountAll" /\ Cur.t <= Len(TagList) /\ PointDue(points, hooks, Cur)

AtHook(fn) ==
    /\ pc = "MountAll"
    /\ Cur.t <= Len(TagList)
    /\ ~PointDue(points, hooks, Cur)
    /\ HookDue(points, hooks, Cur)
    /\ hooks[HooksOf(hooks, TagList[Cur.t])[Cur.h + 1]].fn = fn

\* The index in the plan of the point handed next, and of the hook run next.
CurIdx == GetByTag(points, TagList[Cur.t])[Cur.i + 1]

CurHook == HooksOf(hooks, TagList[Cur.t])[Cur.h + 1]

\* A history entry: a mounter call ("mount", index of the point), a hook
\* ("hook", index of the hook), a session.Update() made by a hook ("update",
\* index of the hook), "chroot" or "chdir"; via is the mounter then.
Event(ev, id, via) == [ev |-> ev, id |-> id, via |-> via]

\* ------------------------------------------------------------------ mounters
\* What the environment answers during one mounter call: does the source /
\* the destination exist, do the loop setup, the mount and the credential
\* calls succeed.
Env(p, swap) ==
    { e \in [ src : IF IsBind(p) /\ ~IsRemount(p) /\ ~p.offset
                    THEN BOOLEAN ELSE {TRUE},
              dst : IF p.offset THEN {TRUE} ELSE BOOLEAN,
              sys : BOOLEAN,
              loop : IF p.offset THEN BOOLEAN ELSE {TRUE},
              elev : IF swap THEN BOOLEAN ELSE {TRUE},
              fs : IF swap THEN BOOLEAN ELSE {TRUE},
              rest : IF swap THEN BOOLEAN ELSE {TRUE} ] :
        \* an answer that is never asked for is left at TRUE
        /\ (~e.elev => e.fs /\ e.rest)
        /\ (~e.elev \/ ~e.fs => e.src /\ e.loop)
        /\ (~e.src \/ ~e.loop => e.dst)
        /\ (~e.dst => e.sys) }

\* A mountGeneric that does not stat the source of a bind.
mountGenericNoSourceStat(p, e) ==
    IF ~p.dst.sess
    THEN IF ~e.dst THEN [issued |-> FALSE, failed |-> FALSE]
         ELSE [issued |-> TRUE, failed |-> ~e.sys]
    ELSE IF ~e.dst THEN [issued |-> FALSE, failed |-> TRUE]
         ELSE [issued |-> TRUE, failed |-> ~e.sys]

\* mountGeneric: issued = mount(2) or the RPC Mount was called; failed = it
\* returned an error.
mountGeneric(p, e) ==
    IF IsBind(p) /\ ~IsRemount(p) /\ ~e.src
    THEN [issued |-> FALSE, failed |-> FALSE]
    ELSE IF ~p.dst.sess
    THEN IF ~e.dst THEN [issued |-> FALSE, failed |-> FALSE]
         ELSE [issued |-> TRUE, failed |-> ~e.sys]
    ELSE IF ~e.dst THEN [issued |-> FALSE, failed |-> TRUE]
         ELSE [issued |-> TRUE, failed |-> ~e.sys]

\* mountImage: loop device setup, then mount(2).
mountImage(p, e) ==
    IF ~e.loop THEN [issued |-> FALSE, failed |-> TRUE]
    ELSE [issued |-> TRUE, failed |-> ~e.sys]

\* localMount / rpcMount: an error of mountGeneric is returned for a remount
\* and is only logged for any other point.
GenericReturn(p, r) == r.failed /\ IsRemount(p)

\* syscall.Setresuid(ruid, euid, suid); the fsuid follows the euid.
Setresuid(cr, r, e, s) == [ruid |-> r, euid |-> e, suid |-> s, fsuid |-> e]

\* localMount, line 194: syscall.Setresuid(uid, 0, uid).
Elevated(cr) == Setresuid(cr, cr.ruid, 0, cr.ruid)

\* A deferred call that leaves the effective uid at 0.
RestoredToRoot(cr) == Setresuid(cr, cr.ruid, 0, cr.ruid)

\* localMount, line 197: the deferred syscall.Setresuid(uid, uid, 0).
Restored(cr) == Setresuid(cr, cr.ruid, cr.ruid, 0)

\* localMount, line 199: syscall.Setfsuid(uid).
Setfsuid(cr) == [cr EXCEPT !.fsuid = cr.ruid]

\* localMount(point): the credentials after the call and what the call did.
localMount(p, cr, uns, e) ==
    IF ~uns /\ ~e.elev
    THEN [cred |-> cr, issued |-> FALSE, failed |-> TRUE, ret |-> TRUE,
          during |-> cr, elevate |-> TRUE, setfsuid |-> FALSE,
          setfsuidOk |-> FALSE, restore |-> FALSE, restoreOk |-> FALSE]
    ELSE
      LET c1 == IF uns THEN cr ELSE Elevated(cr)
          fsErr == ~uns /\ ~e.fs
          c2 == IF uns \/ fsErr THEN c1 ELSE Setfsuid(c1)
          r == IF fsErr THEN [issued |-> FALSE, failed |-> TRUE]
               ELSE IF p.offset THEN mountImage(p, e)
               ELSE mountGeneric(p, e)
          ret == fsErr \/ (p.offset /\ r.failed)
                 \/ (~p.offset /\ GenericReturn(p, r))
          c3 == IF uns \/ ~e.rest THEN c2 ELSE Restored(c2)
      IN [cred |-> c3, issued |-> r.issued, failed |-> r.failed, ret |-> ret,
          during |-> c2, elevate |-> ~uns, setfsuid |-> ~uns,
          setfsuidOk |-> ~uns /\ e.fs, restore |-> ~uns,
          restoreOk |-> ~uns /\ e.rest]

\* rpcMount(point).
rpcMount(p, cr, e) ==
    LET r == mountGeneric(p, e)
    IN [cred |-> cr, issued |-> r.issued, failed |-> r.failed,
        ret |-> GenericReturn(p, r), during |-> cr, elevate |-> FALSE,
        setfsuid |-> FALSE, setfsuidOk |-> FALSE, restore |-> FALSE,
        restoreOk |-> FALSE]

\* A create() that goes on to the chroot whatever MountAll returned.
AfterMountAllUnchecked(mountErr) == "Chroot"

\* create(), lines 110-115: an error of system.MountAll() is returned, else
\* the chroot follows.
AfterMountAll(mountErr) == IF mountErr THEN "error" ELSE "Chroot"

\* MountAll after system.Mount(point) returned m for the point at idx.
Handed(via, idx, e, m) ==
    /\ cred' = m.cred
    /\ last' = [via |-> via, idx |-> idx, srcExists |-> e.src,
                dstExists |-> e.dst, issued |-> m.issued, failed |-> m.failed,
                ret |-> m.ret, euidAt |-> m.during.euid,
                fsuidAt |-> m.during.fsuid, elevate |-> m.elevate,
                setfsuid |-> m.setfsuid, setfsuidOk |-> m.setfsuidOk,
                restore |-> m.restore, restoreOk |-> m.restoreOk]
    /\ trace' = Append(trace, Event("mount", idx, via))
    /\ landed' = IF m.issued /\ ~m.failed /\ IsBind(points[idx])
                    /\ ~IsRemount(points[idx]) /\ points[idx].tag \in Watched
                 THEN landed \cup {points[idx].tag}
                 ELSE landed
    /\ IF m.ret
       THEN /\ pc' = AfterMountAll(TRUE)
            /\ err' = (IF via = "local" THEN "localMount" ELSE "rpcMount")
            /\ UNCHANGED pos
       ELSE pos' = [Cur EXCEPT !.i = @ + 1] /\ UNCHANGED << pc, err >>
    /\ UNCHANGED << cfg, userNS, pidNS, layer, layoutIn, points, hooks, ov,
                    mounter >>

\* MountAll hands the next point to c.localMount.
LocalMount ==
    /\ AtPoint
    /\ mounter = "local"
    /\ \E e \in Env(points[CurIdx], ~userNS) :
         Handed("local", CurIdx, e, localMount(points[CurIdx], cred, userNS, e))

\* MountAll hands the next point to c.rpcMount.
RpcMount ==
    /\ AtPoint
    /\ mounter = "rpc"
    /\ \E e \in Env(points[CurIdx], FALSE) :
         Handed("rpc", CurIdx, e, rpcMount(points[CurIdx], cred, e))

\* ------------------------------------------------------------------ hooks
\* MountAll after a hook returned without error.
HookRan(fn) ==
    /\ trace' = Append(trace, Event("hook", CurHook, mounter))
    /\ pos' = [Cur EXCEPT !.h = @ + 1]

\* switchMount: system.Mount = c.rpcMount.
SwitchMount ==
    /\ AtHook("switchMount")
    /\ mounter' = "rpc"
    /\ HookRan("switchMount")
    /\ UNCHANGED << cfg, userNS, pidNS, cred, layer, layoutIn, points, hooks, ov,
                    pc, err, last, landed >>

\* addFilesMount, run as a hook.
AddFilesMount ==
    /\ AtHook("addFilesMount")
    /\ points' = addFilesMount(points, cfg, cred.euid)
    /\ trace' = Append(IF sessionUpdate(cred.euid) = 1
                       THEN Append(trace, Event("update", CurHook, mounter))
                       ELSE trace,
                       Event("hook", CurHook, mounter))
    /\ pos' = [Cur EXCEPT !.h = @ + 1]
    /\ UNCHANGED << cfg, userNS, pidNS, cred, layer, layoutIn, hooks, ov, mounter,
                    pc, err, last, landed >>

\* overlayUpperWork, lines 460-465: the first point of PreLayerTag that is an
\* ext3 image or a bind (0 if there is none).
RECURSIVE FirstUpper(_, _, _)
FirstUpper(pts, idxs, k) ==
    IF k > Len(idxs) THEN 0
    ELSE LET p == pts[idxs[k]]
         IN IF p.type = "ext3" \/ (p.src # NoPath /\ p.dst # NoPath /\ p.type = "")
            THEN idxs[k]
            ELSE FirstUpper(pts, idxs, k + 1)

UpperDest(pts) ==
    LET k == FirstUpper(pts, GetByTag(pts, PreLayerTag), 1)
    IN IF k = 0 THEN NoPath ELSE pts[k].dst

\* overlayUpperWork: designates <destination>/upper and <destination>/work.
\* dirErr: a symlink was detected or a directory could not be created.
OverlayUpperWork ==
    /\ AtHook("overlayUpperWork")
    /\ \E dirErr \in BOOLEAN :
         IF dirErr
         THEN /\ pc' = AfterMountAll(TRUE)
              /\ err' = "overlayUpperWork"
              /\ UNCHANGED << ov, trace, pos >>
         ELSE /\ ov' = [ov EXCEPT
                          !.upper = [UpperDest(points) EXCEPT !.p = @ \o "/upper"],
                          !.work = [UpperDest(points) EXCEPT !.p = @ \o "/work"]]
              /\ HookRan("overlayUpperWork")
              /\ UNCHANGED << pc, err >>
    /\ UNCHANGED << cfg, userNS, pidNS, cred, layer, layoutIn, points, hooks,
                    mounter, last, landed >>

\* The layer's own hook of LayerTag: the overlay or underlay is realized.
LayerRealize ==
    /\ AtHook("layerRealize")
    /\ HookRan("layerRealize")
    /\ UNCHANGED << cfg, userNS, pidNS, cred, layer, layoutIn, points, hooks, ov,
                    mounter, pc, err, last, landed >>

\* ------------------------------------------------------------------ the end
\* MountAll walked every tag and returns nil.
MountAllReturn ==
    /\ pc = "MountAll"
    /\ Cur.t > Len(TagList)
    /\ pc' = AfterMountAll(FALSE)
    /\ pos' = Cur
    /\ UNCHANGED << cfg, userNS, pidNS, cred, layer, layoutIn, points, hooks, ov,
                    mounter, err, trace, last, landed >>

\* c.rpcOps.Chroot(c.session.FinalPath()). rpcErr: the helper returned an error.
Chroot ==
    /\ pc = "Chroot"
    /\ trace' = Append(trace, Event("chroot", 0, "rpc"))
    /\ \E rpcErr \in BOOLEAN :
         IF rpcErr THEN Fail("Chroot") ELSE pc' = "Chdir" /\ UNCHANGED err
    /\ UNCHANGED << cfg, userNS, pidNS, cred, layer, layoutIn, points, hooks, ov,
                    mounter, pos, last, landed >>

\* syscall.Chdir("/").
Chdir ==
    /\ pc = "Chdir"
    /\ trace' = Append(trace, Event("chdir", 0, ""))
    /\ \E chdirErr \in BOOLEAN :
         IF chdirErr THEN Fail("Chdir") ELSE pc' = "done" /\ UNCHANGED err
    /\ UNCHANGED << cfg, userNS, pidNS, cred, layer, layoutIn, points, hooks, ov,
                    mounter, pos, last, landed >>

Next ==
    \/ SetupSessionLayout
    \/ RegisterFilesHook
    \/ AddRootfsMount
    \/ AddKernelMount
    \/ AddDevMount
    \/ AddHostMount
    \/ AddBindsMount
    \/ AddHomeMount
    \/ AddUserbindsMount
    \/ AddTmpMount
    \/ AddScratchMount
    \/ AddCwdMount
    \/ AddLibsMount
    \/ LocalMount
    \/ RpcMount
    \/ SwitchMount
    \/ AddFilesMount
    \/ OverlayUpperWork
    \/ LayerRealize
    \/ MountAllReturn
    \/ Chroot
    \/ Chdir

Spec == Init /\ [][Next]_vars

\* ------------------------------------------------------------------ the plan
\* The population of the plan alone: create() from its entry to the call of
\* system.MountAll(), over a wider choice of requests.
MaxPlanBinds == 2
MaxScratchDirs == 1
MaxAdminBinds == 2

\* Entries of --bind with each kind of third field.
PlanBindEntries ==
    { [src |-> "/data", dst |-> "/data", opt |-> ""],
      [src |-> "/opt/x", dst |-> "/mnt/x", opt |-> "ro"],
      [src |-> "/srv", dst |-> "/srv", opt |-> "rw"],
      [src |-> "/var/db", dst |-> "/db", opt |-> "bogus"] }

\* Entries of --scratch.
ScratchDirs == {"/scratch1", "/scratch2"}

\* Entries of 'bind path' in the configuration file.
AdminBindEntries ==
    { [src |-> "/etc/hosts", dst |-> "/etc/hosts"],
      [src |-> "/etc/localtime", dst |-> "/etc/localtime"] }

PlanSetups ==
    { Setup([BaseCfg EXCEPT !.userBinds = b, !.userBindControl = ubc],
            FALSE, FALSE, 1000, 1000) :
        b \in SeqUpTo(PlanBindEntries, MaxPlanBinds), ubc \in BOOLEAN }
    \cup { Setup([BaseCfg EXCEPT !.scratch = sc, !.userBindControl = ubc,
                                 !.contain = ct, !.workdir = w, !.mountTmp = mt,
                                 !.userBinds = b],
                 FALSE, FALSE, 1000, 1000) :
             sc \in SeqUpTo(ScratchDirs, MaxScratchDirs), ubc \in BOOLEAN,
             ct \in BOOLEAN, w \in {"", "/w"}, mt \in BOOLEAN,
             b \in SeqUpTo(UserBindEntries, 1) }
    \cup { Setup([BaseCfg EXCEPT !.contain = ct, !.bindPath = bp,
                                 !.cwd.current = cur, !.cwd.cwd = cur],
                 FALSE, FALSE, 1000, 1000) :
             ct \in BOOLEAN, bp \in SeqUpTo(AdminBindEntries, MaxAdminBinds),
             cur \in {"/work", "/etc"} }
    \cup { Setup([BaseCfg EXCEPT !.mountProc = mp, !.mountSys = ms],
                 uns, pns, 1000, 1000) :
             mp \in BOOLEAN, ms \in BOOLEAN, uns \in BOOLEAN, pns \in BOOLEAN }
    \cup { Setup([BaseCfg EXCEPT !.imageType = t, !.sifFs = f],
                 FALSE, FALSE, uid, uid) :
             t \in ImageTypes, f \in {"squashfs", "ext3"}, uid \in {0, 1000} }
    \cup { Setup([BaseCfg EXCEPT !.mountDev = d, !.contain = ct,
                                 !.mountDevPts = dp, !.nv = nv],
                 uns, FALSE, 1000, 1000) :
             d \in MountDevValues, ct \in BOOLEAN, dp \in BOOLEAN,
             nv \in BOOLEAN, uns \in BOOLEAN }
    \cup { Setup([BaseCfg EXCEPT !.imageType = t, !.sifFs = f,
                                 !.allowDir = ad, !.allowExtfs = ae,
                                 !.allowSquashfs = as],
                 FALSE, FALSE, 1000, 1000) :
             t \in ImageTypes, f \in {"squashfs", "ext3"}, ad \in BOOLEAN,
             ae \in BOOLEAN, as \in BOOLEAN }
    \cup { Setup([BaseCfg EXCEPT !.overlayImages = o, !.allowDir = ad,
                                 !.allowExtfs = ae, !.allowSquashfs = as,
                                 !.imageType = "SIF"],
                 FALSE, FALSE, 0, 0) :
             o \in SeqUpTo(OverlayEntries, MaxOverlayImages), ad \in BOOLEAN,
             ae \in BOOLEAN, as \in BOOLEAN }
    \cup { Setup([BaseCfg EXCEPT !.overlayImages = o, !.limitPaths = lp,
                                 !.limitGroups = lg, !.limitOwners = lo,
                                 !.rootfsAuth = ra, !.overlayAuth = oa],
                 FALSE, FALSE, 1000, 1000) :
             o \in SeqUpTo({[type |-> "SQUASHFS", ro |-> TRUE]},
                           MaxOverlayImages),
             lp \in BOOLEAN, lg \in BOOLEAN, lo \in BOOLEAN,
             ra \in ImageAuths, oa \in ImageAuths }

PlanInit == \E s \in PlanSetups : Start(s)

PlanNext ==
    \/ SetupSessionLayout
    \/ RegisterFilesHook
    \/ AddRootfsMount
    \/ AddKernelMount
    \/ AddDevMount
    \/ AddHostMount
    \/ AddBindsMount
    \/ AddHomeMount
    \/ AddUserbindsMount
    \/ AddTmpMount
    \/ AddScratchMount
    \/ AddCwdMount
    \/ AddLibsMount

PlanSpec == PlanInit /\ [][PlanNext]_vars

\* The steps of create() after the named concern returned without error.
StepsAfter(step) ==
    CASE step = "addRootfsMount" ->
           {"addKernelMount", "addDevMount", "addHostMount", "addBindsMount",
            "addHomeMount", "addUserbindsMount", "addTmpMount", "addScratchMount",
            "addCwdMount", "addLibsMount", "MountAll"}
      [] step = "addDevMount" ->
           {"addHostMount", "addBindsMount", "addHomeMount", "addUserbindsMount",
            "addTmpMount", "addScratchMount", "addCwdMount", "addLibsMount",
            "MountAll"}
      [] step = "addKernelMount" ->
           {"addDevMount", "addHostMount", "addBindsMount", "addHomeMount",
            "addUserbindsMount", "addTmpMount", "addScratchMount", "addCwdMount",
            "addLibsMount", "MountAll"}
      [] step = "addBindsMount" ->
           {"addHomeMount", "addUserbindsMount", "addTmpMount", "addScratchMount",
            "addCwdMount", "addLibsMount", "MountAll"}
      [] step = "addUserbindsMount" ->
           {"addTmpMount", "addScratchMount", "addCwdMount", "addLibsMount",
            "MountAll"}
      [] step = "addTmpMount" ->
           {"addScratchMount", "addCwdMount", "addLibsMount", "MountAll"}
      [] step = "addScratchMount" -> {"addCwdMount", "addLibsMount", "MountAll"}
      [] step = "addCwdMount" -> {"addLibsMount", "MountAll"}

\* ------------------------------------------------------------------ overlays
\* create() over lists of overlay images, on an installation that mounts
\* nothing but the image and its overlays.
MaxOverlayList == 2

\* Entries of --overlay: every kind of image, writable or :ro.
OverlayKinds ==
    [type : {"EXT3", "SQUASHFS", "SANDBOX"}, ro : BOOLEAN]

BareCfg ==
    [BaseCfg EXCEPT !.mountProc = FALSE, !.mountDev = "no",
                    !.mountDevPts = FALSE, !.mountHostfs = FALSE,
                    !.bindPath = << >>, !.noHome = TRUE, !.mountTmp = FALSE,
                    !.cwd.hasProcess = FALSE, !.configPasswd = FALSE,
                    !.configGroup = FALSE]

OverlaySetups ==
    { Setup([BareCfg EXCEPT !.overlayImages = o], FALSE, FALSE, uid, uid) :
        o \in SeqUpTo(OverlayKinds, MaxOverlayList), uid \in {0, 1000} }

OverlayInit == \E s \in OverlaySetups : Start(s)

OverlaySpec == OverlayInit /\ [][Next]_vars

\* ------------------------------------------------------------------ history
\* The positions of the mounter calls and of the hooks in the history.
MountEvents == { i \in 1..Len(trace) : trace[i].ev = "mount" }

HookEvents == { i \in 1..Len(trace) : trace[i].ev = "hook" }

\* The point handed by the mounter call at position i of the history.
EvPoint(i) == points[trace[i].id]

\* The hook run at position i of the history.
EvHook(i) == hooks[trace[i].id]

\* The point of the latest mounter call.
LastPoint == points[last.idx]

\* ------------------------------------------------------------------ C1
\* C1: MountAll hands the points to the mounter in the fixed tag order
\* (Session, Rootfs, PreLayer, Layer, Dev, Hostfs, Binds, Kernel, Home, Tmp,
\* Scratch, Cwd, Userbinds, Files, Other, Final) and, within one tag, in
\* insertion order: of two mounter calls the earlier one has the smaller tag,
\* or the same tag and the earlier insertion.
C1_TagOrder ==
    \A i \in MountEvents, j \in MountEvents :
      i < j =>
        \/ EvPoint(i).tag < EvPoint(j).tag
        \/ EvPoint(i).tag = EvPoint(j).tag /\ trace[i].id < trace[j].id

\* A finished run that handed two points of one tag, points of HomeTag and
\* UserbindsTag, and a point that a hook added at FilesTag.
C1_Witness ==
    /\ pc = "done"
    /\ \E i \in MountEvents, j \in MountEvents :
         i < j /\ EvPoint(i).tag = EvPoint(j).tag
    /\ \E i \in MountEvents : EvPoint(i).tag = HomeTag
    /\ \E i \in MountEvents : EvPoint(i).tag = UserbindsTag
    /\ \E i \in MountEvents : EvPoint(i).tag = FilesTag

\* ------------------------------------------------------------------ C2
\* C2: a hook registered for tag T runs after every point of T was handed to
\* the mounter and before any point of a later tag is handed, and the hooks of
\* one tag run in registration order, none left out.
C2_HookPlacement ==
    /\ \A h \in HookEvents :
         /\ \A m \in MountEvents :
              IF m < h THEN EvPoint(m).tag <= EvHook(h).tag
              ELSE EvPoint(m).tag > EvHook(h).tag
         /\ \A p \in 1..Len(points) :
              points[p].tag = EvHook(h).tag =>
                \E m \in MountEvents : m < h /\ trace[m].id = p
         /\ \A k \in 1..Len(hooks) :
              (hooks[k].tag = EvHook(h).tag /\ k < trace[h].id) =>
                \E g \in HookEvents : g < h /\ trace[g].id = k
    /\ \A m \in MountEvents :
         \A k \in 1..Len(hooks) :
           hooks[k].tag < EvPoint(m).tag =>
             \E g \in HookEvents : g < m /\ trace[g].id = k

\* An overlay run in which overlayUpperWork, the layer's hook, switchMount and
\* addFilesMount have run and points of later tags were mounted.
C2_Witness ==
    /\ pc = "done"
    /\ \E h \in HookEvents : EvHook(h).fn = "overlayUpperWork"
    /\ \E h \in HookEvents, g \in HookEvents :
         h < g /\ EvHook(h).fn = "switchMount" /\ EvHook(g).fn = "addFilesMount"
    /\ \E m \in MountEvents : EvPoint(m).tag = FilesTag

\* ------------------------------------------------------------------ C3
\* The tag after which the claim places the switch of the mounter.
C3_SwitchAfter == IF layer = "None" THEN RootfsTag ELSE LayerTag

\* C3: the mounter starts as the direct mounter and is replaced by the RPC
\* mounter at most once, exactly once in a run whose MountAll returns: with no
\* layer after the points of RootfsTag, with overlay or underlay after the
\* points of LayerTag, never before and never back; every point of a later
\* tag goes through RPC.
C3_MounterSwitch ==
    /\ Cardinality({ h \in HookEvents : EvHook(h).fn = "switchMount" }) <= 1
    /\ (pc \in {"Chroot", "Chdir", "done"} =>
          \E h \in HookEvents : EvHook(h).fn = "switchMount")
    /\ (mounter = "rpc" <=> \E h \in HookEvents : EvHook(h).fn = "switchMount")
    /\ \A h \in HookEvents :
         EvHook(h).fn = "switchMount" => EvHook(h).tag = C3_SwitchAfter
    /\ \A m \in MountEvents :
         /\ trace[m].via = "local" <=> EvPoint(m).tag <= C3_SwitchAfter
         /\ trace[m].via = "rpc" <=> EvPoint(m).tag > C3_SwitchAfter
         /\ trace[m].via = "rpc" <=>
              \E h \in HookEvents : h < m /\ EvHook(h).fn = "switchMount"

\* A run with no layer on a sandbox image: the remount of the rootfs at
\* PreLayerTag already went through RPC, the rootfs bind did not.
C3_Witness ==
    /\ layer = "None"
    /\ \E m \in MountEvents : EvPoint(m).tag = RootfsTag /\ trace[m].via = "local"
    /\ \E m \in MountEvents : EvPoint(m).tag = PreLayerTag /\ trace[m].via = "rpc"

C5_Table(w, uns, k, eo, eu) ==
    CASE w -> "None"
      [] ~w /\ (k /\ ~uns /\ eo \in {"yes", "try"}) -> "Overlay"
      [] ~w /\ ~(k /\ ~uns /\ eo \in {"yes", "try"}) /\ eu -> "Underlay"
      [] OTHER -> "None"

\* C5: for every (writable-image, user-ns, kernel-has-overlay, enable-overlay,
\* enable-underlay) the layout set up is the one of the decision table.
C5_LayoutSelection ==
    layoutIn.read =>
      layer = C5_Table(layoutIn.writableImage, userNS, layoutIn.hasOverlay,
                       layoutIn.enableOverlay, layoutIn.enableUnderlay)

\* Overlay is available and enabled but a user namespace is in use: the
\* underlay is set up.
C5_Witness ==
    /\ layoutIn.read
    /\ userNS
    /\ layoutIn.hasOverlay
    /\ layoutIn.enableOverlay = "yes"
    /\ ~layoutIn.writableImage
    /\ layer = "Underlay"
    /\ pc = "RunAfterTag"

\* ------------------------------------------------------------------ C6
\* The latest mounter call was for a bind (no remount).
LastIsBind == last.via # "" /\ IsBind(LastPoint) /\ ~IsRemount(LastPoint)

\* C6: for a bind without remount whose host source does not exist, neither
\* mount(2) nor the RPC Mount is issued and the mounter returns no error, so
\* MountAll goes on; under both mounters.
C6_MissingSourceSkipped ==
    (LastIsBind /\ ~last.srcExists) =>
      /\ ~last.issued
      /\ ~last.ret
      /\ err \notin {"localMount", "rpcMount"}

\* The RPC mounter skipped a bind whose source is missing and MountAll went
\* on to a later point, after the direct mounter had handled the sandbox bind.
C6_Witness ==
    /\ LastIsBind
    /\ ~last.srcExists
    /\ last.via = "rpc"
    /\ pc = "MountAll"
    /\ pos.i > 0
    /\ \E m \in MountEvents :
         trace[m].via = "local" /\ IsBind(EvPoint(m)) /\ ~IsRemount(EvPoint(m))

\* ------------------------------------------------------------------ C7
\* C7: for a bind whose destination lies inside the session path and does not
\* exist, the mounter returns an error and the run is aborted.
C7_MissingSessionDestFatal ==
    (LastIsBind /\ LastPoint.dst.sess /\ last.srcExists /\ ~last.dstExists) =>
      /\ last.ret
      /\ pc = "error"

\* ------------------------------------------------------------------ C8
\* The positions of the chroot in the history.
ChrootEvents == { i \in 1..Len(trace) : trace[i].ev = "chroot" }

\* C8: Chroot is issued at most once, through RPC, only after MountAll walked
\* the whole plan without error, and nothing but the chdir follows it; when
\* the layout setup, a concern or MountAll returned an error, no Chroot is
\* issued.
C8_ChrootLast ==
    /\ Cardinality(ChrootEvents) <= 1
    /\ \A c \in ChrootEvents :
         /\ trace[c].via = "rpc"
         /\ pos.t > Len(TagList)
         /\ err \in {"", "Chroot", "Chdir"}
         /\ \A i \in 1..Len(trace) :
              IF i < c THEN trace[i].ev \in {"mount", "hook", "update"}
              ELSE i > c => trace[i].ev = "chdir"
         /\ \A p \in 1..Len(points) :
              \E m \in MountEvents : m < c /\ trace[m].id = p
    /\ (pc = "error" /\ err \notin {"Chroot", "Chdir"} => ChrootEvents = {})
    /\ (pc \in {"Chdir", "done"} => ChrootEvents # {})

\* A finished run: the chroot came after the last mount and before the chdir.
C8_Witness ==
    /\ pc = "done"
    /\ \E c \in ChrootEvents : c = Len(trace) - 1 /\ trace[c - 1].ev = "mount"

\* ------------------------------------------------------------------ C9
\* C9: a mount of the home concern into the container is executed before any
\* user bind and before the cwd bind is.
C9_HomeBeforeUserbinds ==
    (last.via # "" /\ last.issued /\ ~last.failed
       /\ LastPoint.by = "addHomeMount" /\ ~LastPoint.dst.sess) =>
      landed \cap {CwdTag, UserbindsTag} = {}

\* ------------------------------------------------------------------ C10
\* C10: once an identity file has been bound on /etc/passwd or /etc/group, no
\* other bind is executed.
C10_IdentityBindsLast ==
    (LastIsBind /\ last.issued /\ ~last.failed /\ LastPoint.by # "addFilesMount") =>
      FilesTag \notin landed

\* ------------------------------------------------------------------ C11
\* The steps of create() up to and including the home concern.
UpToHome ==
    {"setupSessionLayout", "RunAfterTag", "addRootfsMount", "addKernelMount",
     "addDevMount", "addHostMount", "addBindsMount", "addHomeMount"}

\* The home concern is enabled, the requested home is not the passwd home and
\* user bind control is off.
CustomHomeRefused ==
    ~cfg.noHome /\ cfg.mountHome /\ cfg.customHome /\ ~cfg.userBindControl

\* C11: with home mounting enabled, a requested home that differs from the
\* passwd home and user-bind-control off, create() never gets past the home
\* concern without an error: MountAll is not invoked, no mounter call, no hook
\* and no chroot is ever made.
C11_CustomHomeError ==
    CustomHomeRefused =>
      /\ pc \in UpToHome \cup {"error"}
      /\ trace = << >>
      /\ pos = [t |-> 1, i |-> 0, h |-> 0]

\* The home concern itself returned the error.
C11_Witness ==
    CustomHomeRefused /\ pc = "error" /\ err = "addHomeMount" /\ trace = << >>

\* ------------------------------------------------------------------ C12
\* The points the user bind concern registered, in insertion order.
UserbindPoints ==
    LET idx == GetByTag(points, UserbindsTag)
    IN [k \in 1..Len(idx) |-> points[idx[k]]]

\* The third field of a user bind entry is acceptable.
ValidOpt(b) == b.opt \in {"", "ro", "rw"}

\* Some point registered at UserbindsTag belongs to the entry b.
RegisteredFor(b) ==
    \E i \in 1..Len(UserbindPoints) :
      UserbindPoints[i].dst = Abs(b.dst)

\* C12: with user-bind-control on, once the user bind concern has returned,
\* an entry whose third field is neither ro nor rw has no bind and no remount
\* point at UserbindsTag, and every other entry has its points.
C12_InvalidOptionSkipped ==
    (cfg.userBindControl /\ pc \in StepsAfter("addUserbindsMount")) =>
      \A i \in 1..Len(cfg.userBinds) :
        RegisteredFor(cfg.userBinds[i]) <=> ValidOpt(cfg.userBinds[i])

\* ------------------------------------------------------------------ C13
\* C13: once the user bind concern has returned, a point registered for an
\* entry carries MS_RDONLY exactly when that entry's own third field is ro,
\* whatever entries precede it in the list.
C13_ReadOnlyPerEntry ==
    (cfg.userBindControl /\ pc \in StepsAfter("addUserbindsMount")) =>
      \A i \in 1..Len(cfg.userBinds), k \in 1..Len(UserbindPoints) :
        UserbindPoints[k].dst = Abs(cfg.userBinds[i].dst) =>
          ("MS_RDONLY" \in UserbindPoints[k].flags <=> cfg.userBinds[i].opt = "ro")

\* ------------------------------------------------------------------ C14
\* C14: with user-bind-control off, whatever bind-path and scratch-dirs lists
\* were requested, the plan never holds a point at UserbindsTag or at
\* ScratchTag, and neither the user bind concern nor the scratch concern
\* returns an error.
C14_NoUserPointsWithoutControl ==
    ~cfg.userBindControl =>
      /\ GetByTag(points, UserbindsTag) = << >>
      /\ GetByTag(points, ScratchTag) = << >>
      /\ err \notin {"addUserbindsMount", "addScratchMount"}

\* Both lists were requested and both concerns have returned.
C14_Witness ==
    /\ ~cfg.userBindControl
    /\ Len(cfg.userBinds) > 0
    /\ Len(cfg.scratch) > 0
    /\ pc \in StepsAfter("addScratchMount")

\* ------------------------------------------------------------------ C15
\* The points at TmpTag, in insertion order.
TmpPoints ==
    LET idx == GetByTag(points, TmpTag)
    IN [k \in 1..Len(idx) |-> points[idx[k]]]

\* The plan holds exactly: bind src1 -> /tmp, remount /tmp, bind src2 ->
\* /var/tmp, remount /var/tmp.
TmpPlanIs(src1, src2) ==
    /\ Len(TmpPoints) = 4
    /\ IsBind(TmpPoints[1]) /\ ~IsRemount(TmpPoints[1])
    /\ TmpPoints[1].src = src1 /\ TmpPoints[1].dst = Abs("/tmp")
    /\ IsRemount(TmpPoints[2]) /\ TmpPoints[2].dst = Abs("/tmp")
    /\ IsBind(TmpPoints[3]) /\ ~IsRemount(TmpPoints[3])
    /\ TmpPoints[3].src = src2 /\ TmpPoints[3].dst = Abs("/var/tmp")
    /\ IsRemount(TmpPoints[4]) /\ TmpPoints[4].dst = Abs("/var/tmp")

\* The sources the claim names for each configuration.
TmpPlanAsClaimed ==
    CASE ~cfg.contain -> TmpPlanIs(Abs("/tmp"), Abs("/var/tmp"))
      [] cfg.contain /\ cfg.workdir # "" ->
           TmpPlanIs(Abs(cfg.workdir \o "/tmp"), Abs(cfg.workdir \o "/var_tmp"))
      [] cfg.contain /\ cfg.workdir = "" ->
           TmpPlanIs(InSession("/tmp"), InSession("/var/tmp"))

\* C15 as stated: with mount-tmp on, once the tmp concern has returned the
\* plan always holds the binds of /tmp and /var/tmp with their remounts.
C15_TmpAlways ==
    (cfg.mountTmp /\ pc \in StepsAfter("addTmpMount")) => TmpPlanAsClaimed

\* The tmp concern gives up: contain with an explicit workdir and user bind
\* control off.
TmpGivenUp == cfg.contain /\ cfg.workdir # "" /\ ~cfg.userBindControl

\* C15 amended: with mount-tmp on, once the tmp concern has returned without
\* error the plan holds the binds of /tmp and /var/tmp with their remounts
\* and the sources named, except under contain with an explicit workdir and
\* user-bind-control off, where no point is registered at TmpTag and no
\* error is returned. With mount-tmp off no point is registered at TmpTag.
C15_TmpUnlessRefused ==
    /\ (cfg.mountTmp /\ ~TmpGivenUp /\ pc \in StepsAfter("addTmpMount"))
         => TmpPlanAsClaimed
    /\ (~cfg.mountTmp \/ TmpGivenUp)
         => (Len(TmpPoints) = 0 /\ err # "addTmpMount")

\* Contain with a workdir and user bind control: the sources are below the
\* workdir.
C15_Witness ==
    /\ cfg.mountTmp /\ cfg.contain /\ cfg.workdir = "/w" /\ cfg.userBindControl
    /\ pc \in StepsAfter("addTmpMount")
    /\ TmpPoints[3].src = Abs("/w/var_tmp")

\* ------------------------------------------------------------------ C16
\* C16: under contain, whatever the administrator's bind list and the working
\* directory, the plan never holds a point at BindsTag or at CwdTag, and
\* neither the bind concern nor the cwd concern returns an error.
C16_ContainSkipsBindsAndCwd ==
    cfg.contain =>
      /\ GetByTag(points, BindsTag) = << >>
      /\ GetByTag(points, CwdTag) = << >>
      /\ err \notin {"addBindsMount", "addCwdMount"}

\* Administrator binds were configured, the working directory is one that
\* would be bound, and both concerns have returned.
C16_Witness ==
    /\ cfg.contain
    /\ Len(cfg.bindPath) > 0
    /\ ~RefusedCwd(cfg.cwd.current)
    /\ pc \in StepsAfter("addCwdMount")

\* ------------------------------------------------------------------ C17
\* What a registered point is: a remount of dst, a (recursive) bind of src on
\* dst, or a fresh filesystem of its type on dst.
Shape(p) ==
    IF IsRemount(p) THEN << "remount", p.dst.p >>
    ELSE IF IsBind(p)
    THEN << (IF "MS_REC" \in p.flags THEN "rbind" ELSE "bind"), p.src.p, p.dst.p >>
    ELSE << "fs", p.type, p.dst.p >>

\* The points at KernelTag, in insertion order, as shapes.
KernelShapes ==
    LET idx == GetByTag(points, KernelTag)
    IN [k \in 1..Len(idx) |-> Shape(points[idx[k]])]

FreshFs(type, dst) == << << "fs", type, dst >> >>
BindOnly(dir) == << << "rbind", dir, dir >> >>
BindRemount(dir) == << << "rbind", dir, dir >>, << "remount", dir >> >>

\* C17 as stated: /proc is a fresh proc mount under pid-ns, else a recursive
\* bind followed by a remount; /sys is a fresh sysfs mount without user-ns,
\* else a recursive bind followed by a remount; nothing when switched off.
C17_KernelAsClaimed ==
    pc \in StepsAfter("addKernelMount") =>
      KernelShapes =
        (IF ~cfg.mountProc THEN << >>
         ELSE IF pidNS THEN FreshFs("proc", "/proc") ELSE BindRemount("/proc"))
        \o (IF ~cfg.mountSys THEN << >>
            ELSE IF ~userNS THEN FreshFs("sysfs", "/sys") ELSE BindRemount("/sys"))

\* C17 amended: /proc is a fresh proc mount under pid-ns, else a recursive
\* bind of host /proc, followed by a remount only when user-ns is off; /sys
\* is a fresh sysfs mount without user-ns, else a recursive bind of host
\* /sys with no remount; nothing is registered for a mount switched off.
C17_KernelRemountOutsideUserNS ==
    pc \in StepsAfter("addKernelMount") =>
      KernelShapes =
        (IF ~cfg.mountProc THEN << >>
         ELSE IF pidNS THEN FreshFs("proc", "/proc")
         ELSE IF userNS THEN BindOnly("/proc") ELSE BindRemount("/proc"))
        \o (IF ~cfg.mountSys THEN << >>
            ELSE IF ~userNS THEN FreshFs("sysfs", "/sys") ELSE BindOnly("/sys"))

\* A user namespace without a pid namespace: both /proc and /sys are bound
\* and neither is remounted.
C17_Witness ==
    /\ cfg.mountProc /\ cfg.mountSys /\ userNS /\ ~pidNS
    /\ pc \in StepsAfter("addKernelMount")
    /\ KernelShapes = BindOnly("/proc") \o BindOnly("/sys")

\* ------------------------------------------------------------------ C18
\* The latest mounter call was rpcMount and the helper's Mount returned an
\* error.
RpcMountFailed == last.via = "rpc" /\ last.issued /\ last.failed

\* C18: an error returned by the helper for an RPC Mount or an RPC Chroot is
\* fatal: create() has returned an error, the failed Mount is the last call
\* of the run, and no Chroot was issued after a failed Mount.
C18_RpcErrorFatal ==
    /\ RpcMountFailed =>
         /\ pc = "error"
         /\ trace[Len(trace)] = Event("mount", last.idx, "rpc")
         /\ ChrootEvents = {}
    /\ err = "Chroot" => pc = "error"

\* ------------------------------------------------------------------ C19
\* What failed in the latest call of the direct mounter: the setresuid before
\* the mount, the setfsuid, the setresuid on return.
ElevateFailed == last.via = "local" /\ last.elevate /\ ~last.setfsuid
SetfsuidFailed == last.via = "local" /\ last.setfsuid /\ ~last.setfsuidOk
RestoreFailed == last.via = "local" /\ last.restore /\ ~last.restoreOk

\* C19: when a credential change of the direct mounter has failed, localMount
\* has returned an error and create() is aborted: the failed call is the last
\* call of the run.
C19_CredentialFailureFatal ==
    (ElevateFailed \/ SetfsuidFailed \/ RestoreFailed) =>
      /\ pc = "error"
      /\ err = "localMount"
      /\ trace[Len(trace)] = Event("mount", last.idx, "local")

\* ------------------------------------------------------------------ C20
\* C20: without user-ns, in every state after the switch to the RPC mounter
\* and up to the chroot, the effective UID of the process is the real UID of
\* the invoking user.
C20_UserAfterSwitch ==
    (~userNS /\ mounter = "rpc" /\ pc \in {"MountAll", "Chroot"}) =>
      cred.euid = cred.ruid

\* ------------------------------------------------------------------ C21
\* The session directory on which the n-th overlay image is mounted.
OverlayDest(n) == GetPath("/overlay-images/" \o ToString(n - 1))

\* An entry whose image is meant to receive the upper and work dirs.
WritableOverlay(img) == ~img.ro /\ img.type \in {"EXT3", "SANDBOX"}

\* dir is the sub-directory sub of the destination of the n-th overlay image.
Below(dir, n, sub) == dir = [OverlayDest(n) EXCEPT !.p = @ \o sub]

\* C21: in an Overlay layout, once overlayUpperWork has run, the upper and
\* work dirs are below the destination of a writable ext3 or sandbox entry,
\* never below the destination of a read-only or squashfs entry; every
\* read-only or squashfs entry is a lower dir; a sandbox entry with euid not 0
\* makes the layout setup fail.
C21_UpperOfWritable ==
    LET imgs == cfg.overlayImages
    IN /\ (layer = "Overlay" /\ ov.upper # NoPath) =>
            /\ \E n \in 1..Len(imgs) :
                 /\ WritableOverlay(imgs[n])
                 /\ Below(ov.upper, n, "/upper")
                 /\ Below(ov.work, n, "/work")
            /\ \A n \in 1..Len(imgs) :
                 ~WritableOverlay(imgs[n]) =>
                   ~Below(ov.upper, n, "/upper") /\ ~Below(ov.work, n, "/work")
       /\ (layer = "Overlay" /\ pc \notin {"setupSessionLayout", "error"}) =>
            \A n \in 1..Len(imgs) :
              /\ ~WritableOverlay(imgs[n]) =>
                   \E k \in 1..Len(ov.lower) : ov.lower[k] = OverlayDest(n)
              /\ imgs[n].type = "SANDBOX" => cred.euid = 0

\* ------------------------------------------------------------------ C22
\* C22: a mount-dev value other than minimal, yes or no, and an
\* enable-overlay value other than yes, try or no, make create() fail: the
\* run never gets past the step that reads the value.
C22_InvalidEnumFails ==
    /\ cfg.mountDev \notin {"minimal", "yes", "no"} =>
         pc \notin StepsAfter("addDevMount")
    /\ (layoutIn.read /\ layoutIn.enableOverlay \notin {"yes", "try", "no"}) =>
         pc = "error"

\* ------------------------------------------------------------------ C23
\* The points at DevTag, in insertion order.
DevPoints ==
    LET idx == GetByTag(points, DevTag)
    IN [k \in 1..Len(idx) |-> points[idx[k]]]

\* The staged /dev is built: mount-dev is minimal or contain is set.
MinimalDev == cfg.mountDev = "minimal" \/ cfg.contain

\* The host device dev is bound on its staged file.
DevBound(dev) ==
    \E k \in 1..Len(DevPoints) :
      /\ IsBind(DevPoints[k])
      /\ DevPoints[k].src = Abs(dev)
      /\ DevPoints[k].dst = GetPath(dev)

\* The last point at DevTag is the recursive bind of the staged /dev on /dev.
StagedDevLast ==
    /\ Len(DevPoints) > 0
    /\ Shape(DevPoints[Len(DevPoints)]) = << "rbind", "/dev", "/dev" >>
    /\ DevPoints[Len(DevPoints)].src = GetPath("/dev")

\* C23: in minimal dev mode with mount-devpts on, a private devpts instance
\* that cannot be had (no host /dev/pts/ptmx, or the devpts point refused)
\* never makes addDevMount return an error, and once the concern has returned
\* the device binds and the bind of the staged /dev are registered.
C23_DevptsOnlyWarns ==
    (MinimalDev /\ cfg.mountDevPts) =>
      /\ err # "addDevMount"
      /\ pc \in StepsAfter("addDevMount") =>
           /\ \A dev \in {"/dev/null", "/dev/zero", "/dev/random", "/dev/urandom"} :
                DevBound(dev)
           /\ StagedDevLast

\* ------------------------------------------------------------------ C24
\* The points addRootfsMount registered, in insertion order.
RECURSIVE PointsBy(_, _, _)
PointsBy(pts, by, i) ==
    IF i > Len(pts) THEN << >>
    ELSE IF pts[i].by = by THEN << pts[i] >> \o PointsBy(pts, by, i + 1)
    ELSE PointsBy(pts, by, i + 1)

RootfsPoints == PointsBy(points, "addRootfsMount", 1)

\* The filesystem type of an image rootfs.
RootfsType ==
    CASE cfg.imageType = "SQUASHFS" -> "squashfs"
      [] cfg.imageType = "EXT3" -> "ext3"
      [] cfg.imageType = "SIF" -> cfg.sifFs
      [] OTHER -> ""

\* C24: once addRootfsMount has returned, a sandbox has one bind of the
\* directory on RootFsPath at RootfsTag (nosuid, nodev, not read-only) and
\* one remount of RootFsPath at PreLayerTag; an ext3, squashfs or SIF image
\* has one image point at RootfsTag with source /proc/self/fd/<N>, the offset
\* option and flags MS_RDONLY|MS_NOSUID|MS_NODEV; no other point sits at
\* RootfsTag; when the concern failed it registered nothing.
C24_RootfsPoints ==
    /\ pc \in StepsAfter("addRootfsMount") =>
         /\ Len(GetByTag(points, RootfsTag)) = 1
         /\ IF cfg.imageType = "SANDBOX"
            THEN /\ Len(RootfsPoints) = 2
                 /\ RootfsPoints[1].tag = RootfsTag
                 /\ IsBind(RootfsPoints[1]) /\ ~IsRemount(RootfsPoints[1])
                 /\ ~RootfsPoints[1].offset
                 /\ RootfsPoints[1].dst = RootFsPath(layer)
                 /\ {"MS_NOSUID", "MS_NODEV"} \subseteq RootfsPoints[1].flags
                 /\ "MS_RDONLY" \notin RootfsPoints[1].flags
                 /\ RootfsPoints[2].tag = PreLayerTag
                 /\ IsRemount(RootfsPoints[2])
                 /\ RootfsPoints[2].dst = RootFsPath(layer)
            ELSE /\ Len(RootfsPoints) = 1
                 /\ RootfsPoints[1].tag = RootfsTag
                 /\ RootfsPoints[1].offset
                 /\ RootfsPoints[1].src = Abs("/proc/self/fd/img")
                 /\ RootfsPoints[1].dst = RootFsPath(layer)
                 /\ RootfsPoints[1].type = RootfsType
                 /\ RootfsPoints[1].flags = {"MS_RDONLY", "MS_NOSUID", "MS_NODEV"}
    /\ err = "addRootfsMount" =>
         (Len(RootfsPoints) = 0 /\ Len(GetByTag(points, RootfsTag)) = 0)

\* A SIF image with an ext3 partition, in a layout with a layer.
C24_Witness ==
    /\ cfg.imageType = "SIF" /\ cfg.sifFs = "ext3"
    /\ layer = "Overlay"
    /\ pc = "addKernelMount"
    /\ Len(RootfsPoints) = 1
    /\ RootfsPoints[1].type = "ext3"

\* ------------------------------------------------------------------ C25
\* The dev concern's plan for the devices devs in minimal mode, and for the
\* modes yes and no.
DevPlanWith(devs) ==
    pc \in StepsAfter("addDevMount") =>
      IF MinimalDev
      THEN (\A dev \in devs : DevBound(dev)) /\ StagedDevLast
      ELSE IF cfg.mountDev = "yes"
      THEN /\ Len(DevPoints) = 1
           /\ Shape(DevPoints[1]) = << "rbind", "/dev", "/dev" >>
           /\ DevPoints[1].src = Abs("/dev")
      ELSE cfg.mountDev = "no" => Len(DevPoints) = 0

\* C25: once the dev concern has returned, in minimal mode (mount-dev minimal
\* or contain) /dev/null, /dev/zero, /dev/random, /dev/urandom and /dev/tty
\* are bound into the staged /dev and the recursive bind of the staged /dev
\* on /dev is the last DevTag point; with mount-dev yes (contain unset)
\* exactly one bind of host /dev is registered; with mount-dev no (contain
\* unset) no DevTag point is registered.
C25_MinimalDevPlan ==
    DevPlanWith({"/dev/null", "/dev/zero", "/dev/random", "/dev/urandom",
                 "/dev/tty"})

\* ------------------------------------------------------------------ C26
\* The points a step appended to the plan.
Appended ==
    { k \in 1..Len(points') : k > Len(points) \/ points'[k] # points[k] }

UpdateEvents == { i \in 1..Len(trace) : trace[i].ev = "update" }

\* C26: a hook never appends a point to its own tag or to an earlier one:
\* switchMount and overlayUpperWork leave the plan as it is; addFilesMount,
\* a hook of LayerTag, appends points only at FilesTag, appends none when
\* the effective uid is 0, and calls session.Update() once, before it
\* returns, whenever the effective uid is not 0 (and never as root).
C26_HooksAddLater ==
    [][ /\ (AtHook("switchMount") \/ AtHook("overlayUpperWork")) =>
             points' = points
        /\ AtHook("addFilesMount") =>
             /\ hooks[CurHook].tag = LayerTag
             /\ Len(points') >= Len(points)
             /\ \A k \in Appended :
                  /\ k > Len(points)
                  /\ points'[k].tag = FilesTag
                  /\ points'[k].tag > hooks[CurHook].tag
             /\ cred.euid = 0 => points' = points /\ Len(trace') = Len(trace) + 1
             /\ cred.euid # 0 =>
                  /\ Len(trace') = Len(trace) + 2
                  /\ trace'[Len(trace) + 1].ev = "update"
                  /\ trace'[Len(trace) + 2].ev = "hook"
      ]_vars

\* addFilesMount ran as a user, added the passwd and group binds at FilesTag
\* and called session.Update(); the binds were mounted afterwards.
C26_Witness ==
    /\ cred.euid # 0
    /\ UpdateEvents # {}
    /\ \E m \in MountEvents :
         /\ EvPoint(m).tag = FilesTag
         /\ EvPoint(m).dst = Abs("/etc/group")
         /\ \A u \in UpdateEvents : u < m
    /\ \E k \in 1..Len(points) : points[k].dst = Abs("/etc/passwd")

\* ------------------------------------------------------------------ C27
\* The tags at which a concern registers a bind together with its remount:
\* hostfs, /proc, home, tmp, scratch, cwd and user binds.
CompanionTags ==
    {HostfsTag, KernelTag, HomeTag, TmpTag, ScratchTag, CwdTag, UserbindsTag}

\* The point at k is the remount registered as the companion of the bind
\* just before it.
Companion(k) ==
    /\ k > 1
    /\ points[k].tag \in CompanionTags
    /\ IsRemount(points[k])
    /\ IsBind(points[k - 1]) /\ ~IsRemount(points[k - 1])
    /\ points[k - 1].tag = points[k].tag
    /\ points[k - 1].dst = points[k].dst

\* The last mounter call skipped a bind because its host source is missing.
BindSkipped ==
    /\ last.idx >= 1
    /\ IsBind(points[last.idx]) /\ ~IsRemount(points[last.idx])
    /\ ~last.srcExists /\ ~last.issued /\ ~last.ret

\* C27: when a bind was skipped because its host source is missing, the
\* companion remount handed next is not issued and does not make MountAll
\* fail.
C27_RemountFollowsBind ==
    [][ ( /\ BindSkipped
          /\ Len(trace') = Len(trace) + 1
          /\ last'.idx = last.idx + 1
          /\ Companion(last'.idx) )
        => ~last'.issued /\ ~last'.ret ]_vars

\* ------------------------------------------------------------------ C28
\* The points of the plan that carry the offset internal option.
ImagePoints == { k \in 1..Len(points) : points[k].offset }

RegisteredImages ==
    { k \in 1..Len(points) :
        /\ points[k].by \in {"addRootfsMount", "addOverlayMount"}
        /\ ~IsRemount(points[k]) }

\* The limit lists that the image of the point at k has to pass.
AuthOf(k) ==
    IF points[k].by = "addRootfsMount" THEN cfg.rootfsAuth ELSE cfg.overlayAuth

\* The point at k respects the image-kind switches and the limit lists.
Enforced(k) ==
    /\ points[k].type = "squashfs" => cfg.allowSquashfs
    /\ points[k].type = "ext3" => cfg.allowExtfs
    /\ IsBind(points[k]) => cfg.allowDir
    /\ Authorized(cfg, AuthOf(k))

\* C29: no squashfs, ext3 or sandbox filesystem is registered as rootfs or
\* overlay image when its allow-container switch is off, a partition
\* embedded in a SIF file included, and no image that fails a non-empty
\* limit-container list is registered.
C29_AllowListsEnforced == \A k \in RegisteredImages : Enforced(k)

====
